---- MODULE Spec2Model ----
(***************************************************************************)
(* Model of validate_model.py, the validation report of the South Sudan    *)
(* Early Warning Index (EWI).  The script is one linear batch job; each    *)
(* numbered section of the script is one action, and `pc` is the section   *)
(* the interpreter is about to run.  An uncaught Python exception ends the *)
(* run in pc = "aborted" with `error` naming the exception.                *)
(*                                                                         *)
(* Floating point values are modelled as exact rationals <<n, d>> in       *)
(* lowest terms with d > 0, plus the two non-finite values the script can  *)
(* meet: NaN = <<0, 0>> and +inf = <<1, 0>>.  Comparisons follow IEEE 754  *)
(* (every ordered comparison with NaN is false); rounding is not modelled. *)
(***************************************************************************)
EXTENDS Integers, Sequences, FiniteSets, TLC

VARIABLES
    csv,                 \* rows of validation_dataset_full.csv, as read
    sklearn_ver,         \* installed scikit-learn: "lt_1_6" or "ge_1_6"
    pc,                  \* section of the script about to run
    error,               \* uncaught exception that ended the run, or "none"
    df,                  \* the data frame (after imputation)
    missing_ewi_before,  \* line 40
    filled_ewi,          \* line 44, NoInt while unassigned
    auc,                 \* line 60
    interpretation,      \* lines 63-70
    sweep,               \* the rows printed by lines 79-89
    fpr, tpr, thresholds,\* line 97
    optimal_idx,         \* line 98
    optimal_threshold,   \* line 99
    comp_report,         \* the rows printed by lines 121-125
    zone_report,         \* the rows printed by lines 140-147
    pred_optimal,        \* lines 190 and 211
    cm,                  \* tn, fp, fn, tp of line 212
    precision, recall, f1, \* lines 214-216
    verdict              \* lines 239-251

vars == <<csv, sklearn_ver, pc, error, df, missing_ewi_before, filled_ewi, auc,
          interpretation, sweep, fpr, tpr, thresholds, optimal_idx,
          optimal_threshold, comp_report, zone_report, pred_optimal, cm,
          precision, recall, f1, verdict>>

-----------------------------------------------------------------------------
(* Bounds of the model.                                                    *)

\* most rows of a generated dataset
MaxRows == 3

-----------------------------------------------------------------------------
(* float64 as exact rationals.                                             *)

NaN == <<0, 0>>
Inf == <<1, 0>>
Unset == <<>>
NoInt == 0 - 1

Abs(x) == IF x < 0 THEN 0 - x ELSE x

RECURSIVE GCD(_, _)
GCD(a, b) == IF b = 0 THEN a ELSE GCD(b, a % b)

IsNaN(x) == x = NaN
IsFinite(x) == x[2] > 0

\* numpy true division of two integers: n/0 is inf (nan when n = 0), with a
\* RuntimeWarning and no exception.
Div(n, d) ==
    IF d = 0 THEN (IF n = 0 THEN NaN ELSE Inf)
    ELSE LET s == IF d < 0 THEN 0 - 1 ELSE 1
             g == GCD(Abs(n), Abs(d))
         IN  <<(s * n) \div g, (s * d) \div g>>

R(n, d) == Div(n, d)
Zero == <<0, 1>>

Lt(a, b) == ~IsNaN(a) /\ ~IsNaN(b) /\ a[1] * b[2] < b[1] * a[2]
Gt(a, b) == Lt(b, a)
Geq(a, b) == ~IsNaN(a) /\ ~IsNaN(b) /\ a[1] * b[2] >= b[1] * a[2]
FEq(a, b) == ~IsNaN(a) /\ ~IsNaN(b) /\ a = b

FAdd(a, b) ==
    IF IsNaN(a) \/ IsNaN(b) THEN NaN
    ELSE IF ~IsFinite(a) \/ ~IsFinite(b) THEN Inf
    ELSE Div(a[1] * b[2] + b[1] * a[2], a[2] * b[2])

FSub(a, b) ==
    IF IsNaN(a) \/ IsNaN(b) THEN NaN
    ELSE IF ~IsFinite(b) THEN NaN
    ELSE IF ~IsFinite(a) THEN Inf
    ELSE Div(a[1] * b[2] - b[1] * a[2], a[2] * b[2])

FMul(a, b) ==
    IF IsNaN(a) \/ IsNaN(b) THEN NaN
    ELSE IF ~IsFinite(a) \/ ~IsFinite(b)
         THEN (IF a = Zero \/ b = Zero THEN NaN ELSE Inf)
    ELSE Div(a[1] * b[1], a[2] * b[2])

\* float64 / float64 under numpy: a zero divisor gives nan or inf, no exception
FDiv(a, b) ==
    IF IsNaN(a) \/ IsNaN(b) THEN NaN
    ELSE IF ~IsFinite(b) THEN (IF IsFinite(a) THEN Zero ELSE NaN)
    ELSE IF ~IsFinite(a) THEN Inf
    ELSE Div(a[1] * b[2], a[2] * b[1])

\* the Python constant 0 of the guarded metrics, and small integers as floats
FInt(n) == <<n, 1>>

-----------------------------------------------------------------------------
(* Columns of the dataset.                                                 *)

component_cols_for_ewi ==
    <<"cattle_convergence", "conflict_risk", "resource_stress",
      "access_constraints", "water_score", "forage_score">>

components ==
    <<"cattle_convergence", "conflict_risk", "resource_stress",
      "water_score", "forage_score">>

RECURSIVE SumSeq(_)
SumSeq(s) == IF s = <<>> THEN 0 ELSE Head(s) + SumSeq(Tail(s))

RECURSIVE FSum(_)
FSum(s) == IF s = <<>> THEN Zero ELSE FAdd(Head(s), FSum(Tail(s)))

\* s with the elements failing Keep removed (order kept)
RECURSIVE NotNaN(_)
NotNaN(s) ==
    IF s = <<>> THEN <<>>
    ELSE IF IsNaN(Head(s)) THEN NotNaN(Tail(s))
    ELSE <<Head(s)>> \o NotNaN(Tail(s))

\* MeanSkipNa with skipna=False: one missing value makes the mean missing
MeanKeepNa(s) ==
    IF s = <<>> THEN NaN ELSE FDiv(FSum(s), FInt(Len(s)))

\* Series.mean / DataFrame.mean(skipna=True): mean of the non-missing values,
\* NaN when there is none
MeanSkipNa(s) ==
    LET p == NotNaN(s)
    IN  IF p = <<>> THEN NaN ELSE FDiv(FSum(p), FInt(Len(p)))

Column(frame, col) == [i \in 1..Len(frame) |-> frame[i][col]]

\* df[component_cols_for_ewi].mean(axis=1, skipna=True), one value per row
RowMeans(frame) ==
    [i \in 1..Len(frame) |->
        MeanSkipNa([j \in 1..Len(component_cols_for_ewi) |->
                        frame[i][component_cols_for_ewi[j]]])]

\* Series.fillna(other): a missing value takes the value of `other` at the
\* same row, every other value is kept
FillNa(series, other) ==
    [i \in 1..Len(series) |-> IF IsNaN(series[i]) THEN other[i] ELSE series[i]]

CountNaN(series) == Cardinality({i \in 1..Len(series) : IsNaN(series[i])})

SetEwi(frame, series) ==
    [i \in 1..Len(frame) |-> [frame[i] EXCEPT !.ewi = series[i]]]

-----------------------------------------------------------------------------
(* scikit-learn: roc_curve, roc_auc_score, confusion_matrix.               *)

Reverse(s) == [i \in 1..Len(s) |-> s[Len(s) + 1 - i]]

\* i inserted into the index list `sorted` (ascending by score, stable)
RECURSIVE InsertAsc(_, _, _)
InsertAsc(i, sorted, score) ==
    IF sorted = <<>> THEN <<i>>
    ELSE IF Lt(score[i], score[Head(sorted)])
         THEN <<i>> \o sorted
    ELSE <<Head(sorted)>> \o InsertAsc(i, Tail(sorted), score)

RECURSIVE ArgSortUpTo(_, _)
ArgSortUpTo(k, score) ==
    IF k = 0 THEN <<>> ELSE InsertAsc(k, ArgSortUpTo(k - 1, score), score)

\* np.argsort(y_score, kind="mergesort")[::-1]
DescScoreIndices(score) == Reverse(ArgSortUpTo(Len(score), score))

\* np.where(mask)[0]: the indices in `keep` among 1..n, ascending
RECURSIVE SelectIdx(_, _)
SelectIdx(n, keep) ==
    IF n = 0 THEN <<>>
    ELSE IF n \in keep THEN SelectIdx(n - 1, keep) \o <<n>>
    ELSE SelectIdx(n - 1, keep)

\* _binary_clf_curve: cumulative false and true positives at each distinct
\* score, by decreasing score
BinaryClfCurve(y_true, y_score) ==
    LET order == DescScoreIndices(y_score)
        n     == Len(order)
        ss    == [i \in 1..n |-> y_score[order[i]]]
        ys    == [i \in 1..n |-> y_true[order[i]]]
        threshold_idxs == SelectIdx(n, {i \in 1..n : i = n \/ ss[i] # ss[i + 1]})
        CumSum(i) == SumSeq(SubSeq(ys, 1, i))
        m     == Len(threshold_idxs)
    IN  [tps |-> [k \in 1..m |-> CumSum(threshold_idxs[k])],
         fps |-> [k \in 1..m |-> threshold_idxs[k] - CumSum(threshold_idxs[k])],
         thresholds |-> [k \in 1..m |-> ss[threshold_idxs[k]]]]

\* roc_curve, drop_intermediate=True: the points kept are the first, the last
\* and those where the second difference of fps or of tps is not 0
\* (np.diff(fps, 2), np.diff(tps, 2)); with at most 2 points all are kept
OptimalIdxs(c) ==
    LET m == Len(c.fps)
    IN  IF m > 2
        THEN SelectIdx(m, {k \in 1..m :
                 \/ k = 1
                 \/ k = m
                 \/ c.fps[k + 1] - 2 * c.fps[k] + c.fps[k - 1] # 0
                 \/ c.tps[k + 1] - 2 * c.tps[k] + c.tps[k - 1] # 0})
        ELSE [k \in 1..m |-> k]

\* roc_curve, after _binary_clf_curve and the choice of the points kept: the
\* point (0, 0) is put first with threshold inf (max score + 1 before
\* scikit-learn 1.3: either lies above every score), and the counts are divided
\* by their last value; a class without rows gives NaN rates and a warning.
RocRates(c, keep) ==
    LET n    == Len(keep) + 1
        fps_ == [k \in 1..n |-> IF k = 1 THEN 0 ELSE c.fps[keep[k - 1]]]
        tps_ == [k \in 1..n |-> IF k = 1 THEN 0 ELSE c.tps[keep[k - 1]]]
    IN  [fpr |-> [k \in 1..n |-> IF fps_[n] <= 0 THEN NaN ELSE Div(fps_[k], fps_[n])],
         tpr |-> [k \in 1..n |-> IF tps_[n] <= 0 THEN NaN ELSE Div(tps_[k], tps_[n])],
         thresholds |-> [k \in 1..n |-> IF k = 1 THEN Inf
                                        ELSE c.thresholds[keep[k - 1]]]]

\* roc_curve(y_true, y_score), drop_intermediate=True.  (The curve c is bound
\* once, as the one element of a set, so that it is computed once.)
RocCurve(y_true, y_score) ==
    CHOOSE roc \in {RocRates(c, OptimalIdxs(c)) :
                       c \in {BinaryClfCurve(y_true, y_score)}} : TRUE

\* Trapz with the left rectangle rule in place of the trapezoid
RECURSIVE LeftRectangles(_, _, _)
LeftRectangles(x, y, k) ==
    IF k >= Len(x) THEN Zero
    ELSE FAdd(FMul(FSub(x[k + 1], x[k]), y[k]), LeftRectangles(x, y, k + 1))

\* sklearn.metrics.auc: np.trapz(y, x)
RECURSIVE Trapz(_, _, _)
Trapz(x, y, k) ==
    IF k >= Len(x) THEN Zero
    ELSE FAdd(FDiv(FMul(FSub(x[k + 1], x[k]), FAdd(y[k + 1], y[k])), FInt(2)),
              Trapz(x, y, k + 1))

Values(s) == {s[i] : i \in 1..Len(s)}
HasNaN(s) == \E i \in 1..Len(s) : IsNaN(s[i])

\* roc_auc_score(y_true, y_score): [err, value].  NaN in y_score is refused by
\* check_array.  With one class only in y_true, scikit-learn before 1.6
\* raises ValueError; from 1.6 on it warns (UndefinedMetricWarning) and
\* returns nan.
RocAucScore(ver, y_true, y_score) ==
    IF HasNaN(y_score)
    THEN [err |-> "ValueError: Input contains NaN", value |-> NaN]
    ELSE IF Cardinality(Values(y_true)) # 2
    THEN (IF ver = "lt_1_6"
          THEN [err |-> "ValueError: Only one class present in y_true", value |-> NaN]
          ELSE [err |-> "none", value |-> NaN])
    ELSE CHOOSE r \in {[err |-> "none", value |-> Trapz(roc.fpr, roc.tpr, 1)] :
                          roc \in {RocCurve(y_true, y_score)}} : TRUE

\* confusion_matrix(y_true, y_pred).ravel() with labels 0/1: the matrix has one
\* row and column per label present in y_true or y_pred
ConfusionMatrixRavel(y_true, y_pred) ==
    LET n == Len(y_true)
        labels == Values(y_true) \cup Values(y_pred)
        Count(t, p) == Cardinality({i \in 1..n : y_true[i] = t /\ y_pred[i] = p})
    IN  IF Cardinality(labels) = 2
        THEN <<Count(0, 0), Count(0, 1), Count(1, 0), Count(1, 1)>>
        ELSE <<n>>

\* Predict with > in place of >=
PredictStrict(score, threshold) ==
    [i \in 1..Len(score) |-> IF Gt(score[i], threshold) THEN 1 ELSE 0]

\* (df['ewi'] >= threshold).astype(int)
Predict(score, threshold) ==
    [i \in 1..Len(score) |-> IF Geq(score[i], threshold) THEN 1 ELSE 0]

\* ArgMax returning the last maximum in place of the first
ArgMaxLast(a) ==
    IF HasNaN(a)
    THEN (CHOOSE i \in 1..Len(a) : IsNaN(a[i]) /\ \A j \in 1..(i - 1) : ~IsNaN(a[j])) - 1
    ELSE (CHOOSE i \in 1..Len(a) :
              /\ \A j \in 1..Len(a) : Geq(a[i], a[j])
              /\ \A j \in (i + 1)..Len(a) : Lt(a[j], a[i])) - 1

\* np.argmax: index of the first maximum; a NaN counts as the maximum
\* (0-based, as in the script)
ArgMax(a) ==
    IF HasNaN(a)
    THEN (CHOOSE i \in 1..Len(a) : IsNaN(a[i]) /\ \A j \in 1..(i - 1) : ~IsNaN(a[j])) - 1
    ELSE (CHOOSE i \in 1..Len(a) :
              /\ \A j \in 1..Len(a) : Geq(a[i], a[j])
              /\ \A j \in 1..(i - 1) : Lt(a[j], a[i])) - 1

\* precision_recall_curve(y_true, y_score): [precision, recall], by increasing
\* recall reversed, closed by the point precision 1, recall 0
PrecisionRecallCurve(y_true, y_score) ==
    LET c == BinaryClfCurve(y_true, y_score)
        m == Len(c.tps)
        P(k) == IF c.tps[k] + c.fps[k] = 0 THEN Zero
                ELSE Div(c.tps[k], c.tps[k] + c.fps[k])
        Rc(k) == IF c.tps[m] = 0 THEN FInt(1) ELSE Div(c.tps[k], c.tps[m])
    IN  [precision |-> [k \in 1..m |-> P(m + 1 - k)] \o <<FInt(1)>>,
         recall    |-> [k \in 1..m |-> Rc(m + 1 - k)] \o <<Zero>>]

-----------------------------------------------------------------------------
(* pandas unique() and Python sorted().                                    *)

\* Series.unique(): the distinct values by first appearance; all missing
\* values count as one
RECURSIVE UniqueFrom(_, _)
UniqueFrom(series, seen) ==
    IF series = <<>> THEN seen
    ELSE IF \E k \in 1..Len(seen) : seen[k] = Head(series)
         THEN UniqueFrom(Tail(series), seen)
    ELSE UniqueFrom(Tail(series), Append(seen, Head(series)))

Unique(series) == UniqueFrom(series, <<>>)

\* listsort.c count_run: length of the run a[1..], by the comparison "<" alone;
\* descending tells a strictly descending run
RECURSIVE RunEnd(_, _, _)
RunEnd(a, k, descending) ==
    IF k = Len(a) THEN k
    ELSE IF descending
         THEN (IF Lt(a[k + 1], a[k]) THEN RunEnd(a, k + 1, descending) ELSE k)
    ELSE (IF Lt(a[k + 1], a[k]) THEN k ELSE RunEnd(a, k + 1, descending))

\* listsort.c binarysort, the search: 0-based position in a[l..r) where pivot
\* goes
RECURSIVE BinaryPos(_, _, _, _)
BinaryPos(a, pivot, l, r) ==
    IF l >= r THEN l
    ELSE LET p == l + ((r - l) \div 2)
         IN  IF Lt(pivot, a[p + 1]) THEN BinaryPos(a, pivot, l, p)
             ELSE BinaryPos(a, pivot, p + 1, r)

\* listsort.c binarysort: a[1..start-1] is sorted; insert a[start..] one by one
RECURSIVE BinarySort(_, _)
BinarySort(a, start) ==
    IF start > Len(a) THEN a
    ELSE LET pivot == a[start]
             pos   == BinaryPos(a, pivot, 0, start - 1) + 1
             moved == [i \in 1..Len(a) |->
                          IF i < pos \/ i > start THEN a[i]
                          ELSE IF i = pos THEN pivot
                          ELSE a[i - 1]]
         IN  BinarySort(moved, start + 1)

\* sorted(list) of CPython for a list shorter than 64 (one run extended by
\* binary insertion).  Only "<" is asked of the elements, and every "<" with
\* nan is False.
PySorted(a) ==
    IF Len(a) < 2 THEN a
    ELSE LET descending == Lt(a[2], a[1])
             n == RunEnd(a, 2, descending)
             run == IF descending
                    THEN [i \in 1..Len(a) |-> IF i <= n THEN a[n + 1 - i] ELSE a[i]]
                    ELSE a
         IN  BinarySort(run, n + 1)

\* int(x) of a float: truncation toward zero
PyInt(x) == IF x[1] < 0 THEN 0 - ((0 - x[1]) \div x[2]) ELSE x[1] \div x[2]

\* priority_map.get(code, 'Unknown')
PriorityLabel(code) ==
    CASE code = 1 -> "CRITICAL"
      [] code = 2 -> "HIGH ALERT"
      [] code = 3 -> "WATCH"
      [] code = 4 -> "STABLE"
      [] OTHER -> "Unknown"

\* the order in which the loop of line 140 visits the classes
ZoneOrder(frame) == PySorted(Unique(Column(frame, "priority_class")))

\* one printed row of the loop of lines 140-147
ZoneRow(frame, priority) ==
    LET subset == {i \in 1..Len(frame) : FEq(frame[i].priority_class, priority)}
        conflicts == Cardinality({i \in subset : frame[i].conflict_occurred = 1})
        total == Cardinality(subset)
    IN  [priority |-> priority,
         label |-> PriorityLabel(PyInt(priority)),
         total |-> total,
         conflicts |-> conflicts,
         pct |-> IF total > 0 THEN FMul(Div(conflicts, total), FInt(100)) ELSE Zero]

RECURSIVE ZoneRows(_, _)
ZoneRows(frame, order) ==
    IF order = <<>> THEN <<>>
    ELSE IF Head(order) = Zero \/ IsNaN(Head(order))
         THEN ZoneRows(frame, Tail(order))
    ELSE <<ZoneRow(frame, Head(order))>> \o ZoneRows(frame, Tail(order))

-----------------------------------------------------------------------------
(* The input files the model runs the script on.                           *)

MkRow(ewi, comps, y, priority) ==
    [ewi |-> ewi,
     cattle_convergence |-> comps[1], conflict_risk |-> comps[2],
     resource_stress |-> comps[3], access_constraints |-> comps[4],
     water_score |-> comps[5], forage_score |-> comps[6],
     conflict_occurred |-> y, priority_class |-> priority]

FullComponents == <<R(6, 10), R(5, 10), R(4, 10), R(3, 10), R(7, 10), R(2, 10)>>

\* component values with the columns outside `present` missing
Masked(present) ==
    [j \in 1..6 |-> IF j \in present THEN FullComponents[j] ELSE NaN]

\* score family: scores below, at and above the sweep's thresholds
Scores == {R(2, 10), R(5, 10), R(7, 10), R(9, 10)}
ScoreRows == {MkRow(e, FullComponents, y, FInt(1)) : e \in Scores, y \in {0, 1}}

\* imputation family: a missing score with 0, 1, 3, 5 (all but
\* access_constraints) or 6 components present, or a score and all components
PresentSets == {{}, {4}, {2, 4, 6}, {1, 2, 3, 5, 6}, 1..6}
ImputeRows ==
    {MkRow(NaN, Masked(m), y, FInt(1)) : m \in PresentSets, y \in {0, 1}}
      \cup {MkRow(R(5, 10), FullComponents, y, FInt(1)) : y \in {0, 1}}

\* one-row files with every subset of the 6 components present
OneRowFiles ==
    {<<MkRow(e, Masked(m), y, FInt(1))>> :
        e \in {NaN, R(5, 10)}, m \in SUBSET (1..6), y \in {0, 1}}

\* priority family: class missing, 0 (unclassified), mapped, unmapped
PriorityClasses == {NaN, FInt(0), FInt(1), FInt(3), FInt(7)}
PriorityRows == {MkRow(R(5, 10), FullComponents, y, p) :
                    p \in PriorityClasses, y \in {0, 1}}

SeqsUpTo(rows, n) == UNION {[1..k -> rows] : k \in 1..n}

FromScores(scores, outcomes) ==
    [i \in 1..Len(scores) |->
        MkRow(scores[i], FullComponents, outcomes[i], FInt(1))]

\* the four-row scenario: scores 0.9, 0.8, 0.3, 0.2 with outcomes 1, 1, 0, 0
ScenarioSeparated ==
    FromScores(<<R(9, 10), R(8, 10), R(3, 10), R(2, 10)>>, <<1, 1, 0, 0>>)

\* threshold 0.5 on scores 0.6, 0.4 with outcomes 1, 0
ScenarioSweep == FromScores(<<R(6, 10), R(4, 10)>>, <<1, 0>>)

\* AUC 0.85 with recall exactly 0.7 at the optimal threshold: ten conflicts,
\* seven of them scored above both non-conflicts
ScenarioRecall07 ==
    FromScores(<<R(9, 10), R(9, 10), R(9, 10), R(9, 10), R(9, 10), R(9, 10),
                 R(9, 10), R(5, 10), R(2, 10), R(2, 10), R(2, 10), R(1, 10)>>,
               <<1, 1, 1, 1, 1, 1, 1, 0, 1, 1, 1, 0>>)

\* AUC exactly 0.65: of the 10 pairs 6 are won and 1 is tied
ScenarioAuc065 ==
    FromScores(<<R(9, 10), R(8, 10), R(7, 10), R(6, 10), R(6, 10), R(5, 10),
                 R(4, 10)>>,
               <<0, 1, 0, 1, 0, 0, 0>>)

\* tpr - fpr is 0.5 at two points of the curve (thresholds 0.9 and 0.3), and
\* the AUC is exactly 0.75
ScenarioTiedJ ==
    FromScores(<<R(9, 10), R(5, 10), R(3, 10), R(2, 10)>>, <<1, 0, 1, 0>>)

Scenarios == {ScenarioSeparated, ScenarioSweep, ScenarioRecall07, ScenarioAuc065,
              ScenarioTiedJ}

ScoreFiles == SeqsUpTo(ScoreRows, MaxRows) \cup Scenarios
ImputeFiles == SeqsUpTo(ImputeRows, MaxRows) \cup OneRowFiles
PriorityFiles == SeqsUpTo(PriorityRows, MaxRows)

\* the state when the interpreter starts on one of `files`
InitOn(files) ==
    /\ csv \in files
    /\ sklearn_ver \in {"lt_1_6", "ge_1_6"}
    /\ pc = "load"
    /\ error = "none"
    /\ df = Unset
    /\ missing_ewi_before = NoInt
    /\ filled_ewi = NoInt
    /\ auc = Unset
    /\ interpretation = "none"
    /\ sweep = Unset
    /\ fpr = Unset /\ tpr = Unset /\ thresholds = Unset
    /\ optimal_idx = NoInt
    /\ optimal_threshold = Unset
    /\ comp_report = Unset
    /\ zone_report = Unset
    /\ pred_optimal = Unset
    /\ cm = Unset
    /\ precision = Unset /\ recall = Unset /\ f1 = Unset
    /\ verdict = "none"

Init == InitOn(ScoreFiles)
InitImpute == InitOn(ImputeFiles)
InitZones == InitOn(PriorityFiles)

-----------------------------------------------------------------------------
(* The sections of the script.                                             *)

\* the imputed composite column of lines 40-42
ImputedEwi(frame) == FillNa(Column(frame, "ewi"), RowMeans(frame))

\* lines 29-49: read the file, fill the missing composite scores
LoadData ==
    /\ pc = "load"
    /\ LET before == CountNaN(Column(csv, "ewi"))
           filled == SetEwi(csv, ImputedEwi(csv))
       IN  /\ missing_ewi_before' = before
           /\ IF before > 0
              THEN /\ df' = filled
                   /\ filled_ewi' = before - CountNaN(Column(filled, "ewi"))
              ELSE /\ df' = csv
                   /\ filled_ewi' = filled_ewi
    /\ pc' = "auc"
    /\ UNCHANGED <<csv, sklearn_ver, error, auc, interpretation, sweep, fpr, tpr,
                   thresholds, optimal_idx, optimal_threshold, comp_report,
                   zone_report, pred_optimal, cm, precision, recall, f1, verdict>>

\* lines 63-70
Interpret(a) ==
    IF Gt(a, R(8, 10)) THEN "EXCELLENT"
    ELSE IF Gt(a, R(7, 10)) THEN "GOOD"
    ELSE IF Gt(a, R(6, 10)) THEN "FAIR"
    ELSE "POOR"

\* lines 59-70: ROC-AUC of the composite score and its quality label
OverallAuc ==
    /\ pc = "auc"
    /\ LET r == RocAucScore(sklearn_ver, Column(df, "conflict_occurred"),
                            Column(df, "ewi"))
       IN  IF r.err # "none"
           THEN /\ pc' = "aborted"
                /\ error' = r.err
                /\ UNCHANGED <<auc, interpretation>>
           ELSE /\ pc' = "sweep"
                /\ auc' = r.value
                /\ interpretation' = Interpret(r.value)
                /\ error' = error
    /\ UNCHANGED <<csv, sklearn_ver, df, missing_ewi_before, filled_ewi, sweep,
                   fpr, tpr, thresholds, optimal_idx, optimal_threshold,
                   comp_report, zone_report, pred_optimal, cm, precision,
                   recall, f1, verdict>>

\* the thresholds of line 79
SweepThresholds == <<R(4, 10), R(5, 10), R(6, 10), R(7, 10)>>

\* lines 84-87 on the counts of line 83
SweepMetrics(threshold, c) ==
    LET tn_ == c[1]
        fp_ == c[2]
        fn_ == c[3]
        tp_ == c[4]
        p == IF tp_ + fp_ > 0 THEN Div(tp_, tp_ + fp_) ELSE Zero
        r == IF tp_ + fn_ > 0 THEN Div(tp_, tp_ + fn_) ELSE Zero
    IN  [threshold |-> threshold, tn |-> tn_, fp |-> fp_, fn |-> fn_, tp |-> tp_,
         precision |-> p,
         recall |-> r,
         f1 |-> IF Gt(FAdd(p, r), Zero)
                THEN FDiv(FMul(FInt(2), FMul(p, r)), FAdd(p, r)) ELSE Zero,
         accuracy |-> Div(tp_ + tn_, tp_ + tn_ + fp_ + fn_)]

\* line 83 for the k-th threshold
SweepCounts(frame, k) ==
    ConfusionMatrixRavel(Column(frame, "conflict_occurred"),
                         Predict(Column(frame, "ewi"), SweepThresholds[k]))

\* lines 79-89: one printed row per threshold; unpacking a confusion matrix
\* that is not 2x2 raises ValueError and ends the run after the rows printed
\* so far
ThresholdSweep ==
    /\ pc = "sweep"
    /\ LET bad == {k \in 1..Len(SweepThresholds) : Len(SweepCounts(df, k)) # 4}
           stop == IF bad = {} THEN Len(SweepThresholds) + 1
                   ELSE CHOOSE k \in bad : \A j \in bad : k <= j
       IN  /\ sweep' = [k \in 1..(stop - 1) |->
                           SweepMetrics(SweepThresholds[k], SweepCounts(df, k))]
           /\ IF bad = {}
              THEN pc' = "optimal" /\ error' = error
              ELSE pc' = "aborted" /\ error' = "ValueError: not enough values to unpack"
    /\ UNCHANGED <<csv, sklearn_ver, df, missing_ewi_before, filled_ewi, auc,
                   interpretation, fpr, tpr, thresholds, optimal_idx,
                   optimal_threshold, comp_report, zone_report, pred_optimal,
                   cm, precision, recall, f1, verdict>>

\* tpr - fpr of line 98
YoudenJ(tpr_, fpr_) == [k \in 1..Len(tpr_) |-> FSub(tpr_[k], fpr_[k])]

\* line 98
OptimalIdx(tpr_, fpr_) == ArgMax(YoudenJ(tpr_, fpr_))

\* lines 96-100: ROC curve and the threshold of the largest tpr - fpr
OptimalThreshold ==
    /\ pc = "optimal"
    /\ LET roc == RocCurve(Column(df, "conflict_occurred"), Column(df, "ewi"))
           idx == OptimalIdx(roc.tpr, roc.fpr)
       IN  /\ fpr' = roc.fpr
           /\ tpr' = roc.tpr
           /\ thresholds' = roc.thresholds
           /\ optimal_idx' = idx
           /\ optimal_threshold' = roc.thresholds[idx + 1]
    /\ pc' = "components"
    /\ UNCHANGED <<csv, sklearn_ver, error, df, missing_ewi_before, filled_ewi,
                   auc, interpretation, sweep, comp_report, zone_report,
                   pred_optimal, cm, precision, recall, f1, verdict>>

\* rows of the frame with the given outcome, line 123 and 124
WithOutcome(frame, y) ==
    SelectSeq(frame, LAMBDA row : row.conflict_occurred = y)

\* one printed row of the loop of lines 121-125, or the exception of line 122
ComponentRow(ver, frame, col) ==
    LET r == RocAucScore(ver, Column(frame, "conflict_occurred"), Column(frame, col))
    IN  [err |-> r.err,
         col |-> col,
         auc_comp |-> r.value,
         mean_conflict |-> MeanSkipNa(Column(WithOutcome(frame, 1), col)),
         mean_no_conflict |-> MeanSkipNa(Column(WithOutcome(frame, 0), col))]

\* the rows of the loop of lines 121-125, were no iteration to raise
ComponentRows(ver, frame) ==
    [k \in 1..Len(components) |-> ComponentRow(ver, frame, components[k])]

\* the first iteration that raises, Len(rows) + 1 when none does
FirstError(rows) ==
    IF \A k \in 1..Len(rows) : rows[k].err = "none" THEN Len(rows) + 1
    ELSE CHOOSE k \in 1..Len(rows) :
             /\ rows[k].err # "none"
             /\ \A j \in 1..(k - 1) : rows[j].err = "none"

\* lines 121-125: AUC and class means of five of the component columns
ComponentAnalysis ==
    /\ pc = "components"
    /\ comp_report' = SubSeq(ComponentRows(sklearn_ver, df), 1,
                             FirstError(ComponentRows(sklearn_ver, df)) - 1)
    /\ IF FirstError(ComponentRows(sklearn_ver, df)) > Len(components)
       THEN pc' = "zones" /\ error' = error
       ELSE /\ pc' = "aborted"
            /\ error' = ComponentRows(sklearn_ver, df)[
                            FirstError(ComponentRows(sklearn_ver, df))].err
    /\ UNCHANGED <<csv, sklearn_ver, df, missing_ewi_before, filled_ewi, auc,
                   interpretation, sweep, fpr, tpr, thresholds, optimal_idx,
                   optimal_threshold, zone_report, pred_optimal, cm, precision,
                   recall, f1, verdict>>

\* lines 135-147: one printed row per priority class
PriorityZoneValidation ==
    /\ pc = "zones"
    /\ zone_report' = ZoneRows(df, ZoneOrder(df))
    /\ pc' = "plots"
    /\ UNCHANGED <<csv, sklearn_ver, error, df, missing_ewi_before, filled_ewi,
                   auc, interpretation, sweep, fpr, tpr, thresholds, optimal_idx,
                   optimal_threshold, comp_report, pred_optimal, cm, precision,
                   recall, f1, verdict>>

\* lines 157-201: the figure.  Only the assignments to the script's variables
\* are modelled (lines 160, 170, 190); drawing and saving are not.
Visualizations ==
    /\ pc = "plots"
    /\ LET y   == Column(df, "conflict_occurred")
           roc == RocCurve(y, Column(df, "ewi"))
           prc == PrecisionRecallCurve(y, Column(df, "ewi"))
       IN  /\ fpr' = roc.fpr
           /\ tpr' = roc.tpr
           /\ precision' = prc.precision
           /\ recall' = prc.recall
    /\ pred_optimal' = Predict(Column(df, "ewi"), optimal_threshold)
    /\ pc' = "summary"
    /\ UNCHANGED <<csv, sklearn_ver, error, df, missing_ewi_before, filled_ewi,
                   auc, interpretation, sweep, thresholds, optimal_idx,
                   optimal_threshold, comp_report, zone_report, cm, f1, verdict>>

\* SummaryMetrics with the recall taken over the predicted positives
SummaryMetricsSwapped(c) ==
    LET fp_ == c[2]
        tp_ == c[4]
        p == Div(tp_, tp_ + fp_)
        r == Div(tp_, tp_ + fp_)
    IN  [precision |-> p,
         recall |-> r,
         f1 |-> FDiv(FMul(FInt(2), FMul(p, r)), FAdd(p, r))]

\* lines 214-216 on the counts of line 212: numpy divisions, not guarded
SummaryMetrics(c) ==
    LET fp_ == c[2]
        fn_ == c[3]
        tp_ == c[4]
        p == Div(tp_, tp_ + fp_)
        r == Div(tp_, tp_ + fn_)
    IN  [precision |-> p,
         recall |-> r,
         f1 |-> FDiv(FMul(FInt(2), FMul(p, r)), FAdd(p, r))]

\* lines 211-216: confusion counts and metrics at the optimal threshold
SummaryReport ==
    /\ pc = "summary"
    /\ LET pred == Predict(Column(df, "ewi"), optimal_threshold)
           c    == ConfusionMatrixRavel(Column(df, "conflict_occurred"), pred)
       IN  /\ pred_optimal' = pred
           /\ IF Len(c) # 4
              THEN /\ pc' = "aborted"
                   /\ error' = "ValueError: not enough values to unpack"
                   /\ UNCHANGED <<cm, precision, recall, f1>>
              ELSE /\ pc' = "recommend"
                   /\ error' = error
                   /\ cm' = [tn |-> c[1], fp |-> c[2], fn |-> c[3], tp |-> c[4]]
                   /\ precision' = SummaryMetrics(c).precision
                   /\ recall' = SummaryMetrics(c).recall
                   /\ f1' = SummaryMetrics(c).f1
    /\ UNCHANGED <<csv, sklearn_ver, df, missing_ewi_before, filled_ewi, auc,
                   interpretation, sweep, fpr, tpr, thresholds, optimal_idx,
                   optimal_threshold, comp_report, zone_report, verdict>>

\* Verdict with >= in place of >
VerdictInclusive(a, r) ==
    IF Geq(a, R(75, 100)) /\ Geq(r, R(7, 10)) THEN "DEPLOY"
    ELSE IF Geq(a, R(65, 100)) THEN "PILOT"
    ELSE "IMPROVE"

\* lines 239-251
Verdict(a, r) ==
    IF Gt(a, R(75, 100)) /\ Gt(r, R(7, 10)) THEN "DEPLOY"
    ELSE IF Gt(a, R(65, 100)) THEN "PILOT"
    ELSE "IMPROVE"

\* lines 239-255: the operational recommendation, then the run is complete
Recommend ==
    /\ pc = "recommend"
    /\ verdict' = Verdict(auc, recall)
    /\ pc' = "done"
    /\ UNCHANGED <<csv, sklearn_ver, error, df, missing_ewi_before, filled_ewi,
                   auc, interpretation, sweep, fpr, tpr, thresholds, optimal_idx,
                   optimal_threshold, comp_report, zone_report, pred_optimal, cm,
                   precision, recall, f1>>

Next ==
    \/ LoadData
    \/ OverallAuc
    \/ ThresholdSweep
    \/ OptimalThreshold
    \/ ComponentAnalysis
    \/ PriorityZoneValidation
    \/ Visualizations
    \/ SummaryReport
    \/ Recommend

\* the script on the score family and the scenarios
Spec == Init /\ [][Next]_vars
\* the script on the imputation family
SpecImpute == InitImpute /\ [][Next]_vars
\* the script on the priority family
SpecZones == InitZones /\ [][Next]_vars

-----------------------------------------------------------------------------
(* Properties.                                                             *)

Loaded == pc # "load"
AfterAuc == pc \in {"sweep", "optimal", "components", "zones", "plots",
                    "summary", "recommend", "done"}
AfterOptimal == pc \in {"components", "zones", "plots", "summary",
                        "recommend", "done"}
AfterSummary == pc \in {"recommend", "done"}

Rows(frame) == 1..Len(frame)
Positives(frame) == {i \in Rows(frame) : frame[i].conflict_occurred = 1}
Negatives(frame) == {i \in Rows(frame) : frame[i].conflict_occurred = 0}
BothClasses(frame) == Positives(frame) # {} /\ Negatives(frame) # {}
Scored(frame) == {i \in Rows(frame) : ~IsNaN(frame[i].ewi)}

\* the components of row `row` that are present, and their sum
PresentComponents(row) ==
    {j \in 1..Len(component_cols_for_ewi) : ~IsNaN(row[component_cols_for_ewi[j]])}

RECURSIVE SumPresent(_, _)
SumPresent(row, j) ==
    IF j = 0 THEN Zero
    ELSE IF j \in PresentComponents(row)
         THEN FAdd(row[component_cols_for_ewi[j]], SumPresent(row, j - 1))
    ELSE SumPresent(row, j - 1)

\* C1: after loading, a row whose composite score was missing in the file
\* holds sum(present components)/k when k >= 1 of its 6 components are
\* present and stays missing when none is; and the count reported as filled is
\* the number of rows missing before minus the number still missing.
ImputationContract ==
    Loaded =>
      /\ \A i \in Rows(csv) :
           IsNaN(csv[i].ewi) =>
             LET k == Cardinality(PresentComponents(csv[i]))
             IN  IF k = 0 THEN IsNaN(df[i].ewi)
                 ELSE FEq(FMul(df[i].ewi, FInt(k)), SumPresent(csv[i], 6))
      /\ (\E i \in Rows(csv) : IsNaN(csv[i].ewi)) =>
           filled_ewi = Cardinality(Rows(csv) \ Scored(csv))
                          - Cardinality(Rows(df) \ Scored(df))

\* a file with a row filled from 3 of its components and a row that cannot be
\* filled has been loaded
ImputationWitness ==
    /\ Loaded
    /\ \E i \in Rows(csv) :
          /\ IsNaN(csv[i].ewi)
          /\ Cardinality(PresentComponents(csv[i])) = 3
          /\ df[i].ewi = R(1, 3)
    /\ \E i \in Rows(csv) : IsNaN(csv[i].ewi) /\ IsNaN(df[i].ewi)
    /\ filled_ewi = 1
    /\ missing_ewi_before = 2

\* C2: a row whose composite score is still missing after imputation is left
\* out of the AUC, and a file holding such a row, a scored conflict row and a
\* scored non-conflict row is never aborted.
ResidualMissingExcluded ==
    (/\ Loaded
     /\ Scored(df) # Rows(df)
     /\ \E i \in Scored(df) : df[i].conflict_occurred = 1
     /\ \E i \in Scored(df) : df[i].conflict_occurred = 0)
    => /\ pc # "aborted"
       /\ AfterAuc =>
            auc = RocAucScore(sklearn_ver,
                      Column(SelectSeq(df, LAMBDA row : ~IsNaN(row.ewi)),
                             "conflict_occurred"),
                      Column(SelectSeq(df, LAMBDA row : ~IsNaN(row.ewi)),
                             "ewi")).value

InUnit(x) == Geq(x, Zero) /\ Geq(FInt(1), x)

\* C3: precision, recall and F1 are 0, and never NaN, whenever their
\* denominator is 0, in the threshold sweep and in the summary at the optimal
\* threshold (stated for the runs on files with both outcomes).
ZeroDenominatorGivesZero ==
    (Loaded /\ BothClasses(df)) =>
      /\ \A k \in 1..Len(sweep) :
           /\ ~IsNaN(sweep[k].precision) /\ ~IsNaN(sweep[k].recall)
           /\ ~IsNaN(sweep[k].f1)
           /\ sweep[k].tp + sweep[k].fp = 0 => sweep[k].precision = Zero
           /\ sweep[k].tp + sweep[k].fn = 0 => sweep[k].recall = Zero
           /\ FAdd(sweep[k].precision, sweep[k].recall) = Zero => sweep[k].f1 = Zero
      /\ AfterSummary =>
           /\ ~IsNaN(precision) /\ ~IsNaN(recall) /\ ~IsNaN(f1)
           /\ cm.tp + cm.fp = 0 => precision = Zero
           /\ cm.tp + cm.fn = 0 => recall = Zero
           /\ FAdd(precision, recall) = Zero => f1 = Zero

\* C4: on a file whose outcomes are all 1 or all 0 the AUC step ends the run
\* with the one-class error, and no AUC, quality label or verdict is reported.
SingleClassIsSignalled ==
    (Loaded /\ ~BothClasses(df) /\ Scored(df) = Rows(df)) =>
      /\ auc = Unset
      /\ interpretation = "none"
      /\ verdict = "none"
      /\ pc # "auc" =>
           pc = "aborted" /\ error = "ValueError: Only one class present in y_true"

\* tpr - fpr at the k-th point of the stored curve
JAt(k) == FSub(tpr[k], fpr[k])

\* C5: the curve's points are ordered by decreasing threshold, and the optimal
\* threshold is the threshold of the first point where tpr - fpr is largest: no
\* point has a larger tpr - fpr and no earlier point an equal one.  On the
\* scores 0.9, 0.8, 0.3, 0.2 with outcomes 1, 1, 0, 0 that point has J = 1 and
\* a threshold above 0.3 and at most 0.8.
YoudenFirstMaximum ==
    AfterOptimal =>
      /\ \A k \in 1..(Len(thresholds) - 1) : Gt(thresholds[k], thresholds[k + 1])
      /\ Len(fpr) = Len(thresholds) /\ Len(tpr) = Len(thresholds)
      /\ optimal_idx + 1 \in 1..Len(thresholds)
      /\ optimal_threshold = thresholds[optimal_idx + 1]
      /\ \A k \in 1..Len(thresholds) : ~Gt(JAt(k), JAt(optimal_idx + 1))
      /\ \A k \in 1..optimal_idx : ~FEq(JAt(k), JAt(optimal_idx + 1))
      /\ csv = ScenarioSeparated =>
           /\ JAt(optimal_idx + 1) = FInt(1)
           /\ Gt(optimal_threshold, R(3, 10))
           /\ Geq(R(8, 10), optimal_threshold)

\* a file with both outcomes whose largest tpr - fpr is attained at two points
\* of the curve: the earlier one was selected
YoudenTieWitness ==
    /\ AfterOptimal
    /\ BothClasses(df)
    /\ \E k \in (optimal_idx + 2)..Len(thresholds) :
          FEq(JAt(k), JAt(optimal_idx + 1))
    /\ optimal_idx > 0

\* recall of the rows scored at or above the optimal threshold, by counting
RecallAtOptimal ==
    Div(Cardinality({i \in Positives(df) : Geq(df[i].ewi, optimal_threshold)}),
        Cardinality(Positives(df)))

\* C6: a completed run has exactly one verdict and an unfinished or aborted run
\* has none; it is DEPLOY iff AUC > 0.75 and recall > 0.7, where recall is the
\* recall at the optimal threshold, else PILOT iff AUC > 0.65, else IMPROVE,
\* with strict comparisons.
VerdictRule ==
    /\ pc # "done" => verdict = "none"
    /\ pc = "done" =>
         /\ recall = RecallAtOptimal
         /\ verdict \in {"DEPLOY", "PILOT", "IMPROVE"}
         /\ verdict = "DEPLOY" <=> (Gt(auc, R(75, 100)) /\ Gt(recall, R(7, 10)))
         /\ verdict = "PILOT" <=>
              (~(Gt(auc, R(75, 100)) /\ Gt(recall, R(7, 10))) /\ Gt(auc, R(65, 100)))
         /\ auc = R(75, 100) => verdict # "DEPLOY"
         /\ recall = R(7, 10) => verdict # "DEPLOY"
         /\ auc = R(65, 100) => verdict = "IMPROVE"

\* the run on the file with AUC 0.85 and recall exactly 0.7 is complete: PILOT
VerdictBoundaryWitness ==
    /\ pc = "done"
    /\ auc = R(85, 100)
    /\ recall = R(7, 10)
    /\ verdict = "PILOT"

\* twice the number of (conflict, non-conflict) pairs the conflict row wins,
\* plus the number of tied pairs
PairPoints(y, score) ==
    LET pos == {i \in 1..Len(y) : y[i] = 1}
        neg == {i \in 1..Len(y) : y[i] = 0}
    IN  2 * Cardinality({p \in pos \X neg : Gt(score[p[1]], score[p[2]])})
          + Cardinality({p \in pos \X neg : score[p[1]] = score[p[2]]})

\* targets of the strictly increasing transforms tried
TransformTargets == {R(0, 1), R(1, 10), R(45, 100), R(1, 2), R(1, 1), R(3, 1)}

\* the strictly increasing map from the values `from` onto the values `to`
\* (sets of equal size), applied to x
Monotone(from, to, x) ==
    CHOOSE v \in to :
        Cardinality({u \in to : Lt(u, v)}) = Cardinality({u \in from : Lt(u, x)})

\* C8: the AUC is (pairs won + 0.5 * pairs tied) / (conflicts * non-conflicts);
\* it is 1 when every conflict row scores above every non-conflict row, 0.5
\* when all rows share one score, and the same for the scores mapped by any
\* strictly increasing transform.
AucIsPairProbability ==
    (AfterAuc /\ BothClasses(df)) =>
      LET y == Column(df, "conflict_occurred")
          score == Column(df, "ewi")
          P == Cardinality(Positives(df))
          N == Cardinality(Negatives(df))
      IN  /\ auc = Div(PairPoints(y, score), 2 * P * N)
          /\ (\A p \in Positives(df), n \in Negatives(df) : Gt(score[p], score[n]))
               => auc = FInt(1)
          /\ Cardinality(Values(score)) = 1 => auc = R(1, 2)
          /\ pc = "sweep" =>
               \A to \in {u \in SUBSET TransformTargets :
                             Cardinality(u) = Cardinality(Values(score))} :
                  RocAucScore(sklearn_ver, y,
                      [i \in 1..Len(score) |->
                          Monotone(Values(score), to, score[i])]).value = auc

\* the AUC of two rows with the same score and different outcomes is 0.5
AucTieWitness ==
    /\ pc = "sweep"
    /\ Len(df) = 2
    /\ df[1].ewi = R(5, 10) /\ df[2].ewi = R(5, 10)
    /\ df[1].conflict_occurred = 1 /\ df[2].conflict_occurred = 0
    /\ auc = R(1, 2)

\* the rows with outcome y predicted p at threshold t, by counting
CountAt(t, y, p) ==
    Cardinality({i \in Rows(df) :
        /\ df[i].conflict_occurred = y
        /\ (IF Geq(df[i].ewi, t) THEN 1 ELSE 0) = p})

\* C9: the sweep prints one row for each of 0.4, 0.5, 0.6, 0.7, a row of the
\* data counts as positive iff its score is at least the threshold, the four
\* counts add up to the number of rows with a score, and precision, recall, F1
\* and accuracy are between 0 and 1.
SweepContract ==
    /\ AfterOptimal \/ pc = "optimal" => Len(sweep) = 4
    /\ \A k \in 1..Len(sweep) :
         /\ sweep[k].threshold = <<R(4, 10), R(5, 10), R(6, 10), R(7, 10)>>[k]
         /\ sweep[k].tp = CountAt(sweep[k].threshold, 1, 1)
         /\ sweep[k].fp = CountAt(sweep[k].threshold, 0, 1)
         /\ sweep[k].fn = CountAt(sweep[k].threshold, 1, 0)
         /\ sweep[k].tn = CountAt(sweep[k].threshold, 0, 0)
         /\ sweep[k].tp + sweep[k].fp + sweep[k].fn + sweep[k].tn
              = Cardinality(Scored(df))
         /\ InUnit(sweep[k].precision) /\ InUnit(sweep[k].recall)
         /\ InUnit(sweep[k].f1) /\ InUnit(sweep[k].accuracy)

\* a conflict row scored exactly 0.5 was counted positive at 0.5, not at 0.6
SweepInclusiveWitness ==
    /\ pc = "optimal"
    /\ Len(df) = 2
    /\ df[1].ewi = R(5, 10) /\ df[1].conflict_occurred = 1
    /\ df[2].ewi = R(2, 10) /\ df[2].conflict_occurred = 0
    /\ sweep[2].tp = 1 /\ sweep[2].precision = FInt(1)
    /\ sweep[3].tp = 0 /\ sweep[3].precision = Zero

\* C10: on a file with both outcomes and no missing score, the recall of the
\* summary is the TPR of the ROC point selected by the argmax, and the false
\* positive rate of the summary's counts is its FPR.
SummaryMatchesRocPoint ==
    (AfterSummary /\ BothClasses(df) /\ Scored(df) = Rows(df)) =>
      /\ recall = tpr[optimal_idx + 1]
      /\ Div(cm.fp, cm.fp + cm.tn) = fpr[optimal_idx + 1]

\* the first point of the curve was selected, its threshold is above every
\* score, and the recall of the summary is 0
FirstPointWitness ==
    /\ AfterSummary
    /\ BothClasses(df)
    /\ optimal_idx = 0
    /\ \A i \in Rows(df) : Gt(optimal_threshold, df[i].ewi)
    /\ recall = Zero /\ tpr[1] = Zero /\ fpr[1] = Zero

\* C7: the zone table has one row for each distinct priority class other than
\* 0 and missing, in ascending order of the class; the row gives the number of
\* rows of the class, the conflicts among them and 100 * conflicts / count, and
\* a class outside 1..4 is labelled Unknown.
ZoneReportContract ==
    AfterOptimal /\ pc # "zones" /\ pc # "components" =>
      LET classes == {df[i].priority_class : i \in Rows(df)} \ {NaN, Zero}
          Members(c) == {i \in Rows(df) : df[i].priority_class = c}
      IN  /\ {zone_report[k].priority : k \in 1..Len(zone_report)} = classes
          /\ Len(zone_report) = Cardinality(classes)
          /\ \A k \in 1..(Len(zone_report) - 1) :
               Lt(zone_report[k].priority, zone_report[k + 1].priority)
          /\ \A k \in 1..Len(zone_report) :
               LET z == zone_report[k]
               IN  /\ z.total = Cardinality(Members(z.priority))
                   /\ z.conflicts = Cardinality(Members(z.priority) \cap Positives(df))
                   /\ z.pct = Div(100 * z.conflicts, z.total)
                   /\ z.priority \notin {FInt(1), FInt(2), FInt(3), FInt(4)}
                        => z.label = "Unknown"

====
